---- MODULE Spec2Model ----
(***************************************************************************)
(* Model of the asynchronous-operation polling pattern of the ncloud       *)
(* provider: the SES (search engine) and CDSS (Kafka) cluster resources.   *)
(* A resource operation issues a triggering API call and then blocks in a  *)
(* poll session (resource.StateChangeConf.WaitForStateContext) whose       *)
(* Pending/Target sets, Refresh callback, Timeout, MinTimeout and Delay    *)
(* are built in waitFor{SES,CDSS}Cluster{Active,Deletion}.                 *)
(***************************************************************************)
EXTENDS Integers, Sequences, FiniteSets, TLC

(* ---- status labels (string constants of the source) ---- *)
SESStatusCreatingCode == "creating"
SESStatusChangingCode == "changing"
SESStatusWorkingCode == "working"
SESStatusRunningCode == "running"
SESStatusDeletingCode == "deleting"
SESStatusReturnCode == "return"
SESStatusNullCode == "null"

CDSSStatusCreating == "creating"
CDSSStatusChanging == "changing"
CDSSStatusRunning == "running"
CDSSStatusDeleting == "deleting"
CDSSStatusError == "error"
CDSSStatusReturn == "return"
CDSSStatusNull == "null"

(* ---- bounds of the model ---- *)
\* user-configurable operation timeouts (seconds) the model draws from
TinyTimeout == 1
ShortTimeout == 4
LongTimeout == 22

TimeoutChoices == {TinyTimeout, ShortTimeout, LongTimeout}

(* ---- poll timing of the four StateChangeConf literals (seconds) ---- *)
Delay == 2

\* mutant: the interval between fetches is as short as the initial delay
MinTimeout_AsDelay == Delay

MinTimeout == 3
\* cap of the interval backoff of the poll loop
MaxInterval == 10

(* ---- the remote system ---- *)
\* the status a cluster lookup can report; "absent" = no such cluster
RemoteStatuses ==
    {SESStatusCreatingCode, SESStatusChangingCode, SESStatusWorkingCode,
     SESStatusRunningCode, SESStatusDeletingCode, SESStatusReturnCode,
     CDSSStatusError}

RemoteStates == RemoteStatuses \cup {"absent"}

Services == {"ses", "cdss"}
Operations == {"create", "delete", "update"}

\* node counts a planned change can hold
MaxNodeCount == 2
NodeCounts == 1..MaxNodeCount

\* the node blocks whose product_code an update can change
SESNodeTypes == {"manager_node", "data_node", "master_node"}
CDSSNodeTypes == {"manager_node", "broker_nodes"}

\* the identity the remote API assigns to the cluster
ClusterId == "101"

\* a second cluster, polled by a concurrent session
OtherClusterId == "102"
ClusterIds == {ClusterId, OtherClusterId}

VARIABLES
    svc,          \* resource family of the operation: "ses" or "cdss"
    op,           \* the resource operation being run
    timeouts,     \* d.Timeout(...) per operation kind
    ctx,          \* the context.Context the handler is called with
    pc,           \* position of the operation handler
    d,            \* schema.ResourceData: local id and attributes
    remote,       \* state of the remote cluster
    calls,        \* mutating API calls issued so far, in order
    opResult,     \* "running", "ok" or "error": what the handler returned
    failedAt,     \* which step made the handler return an error
    diff,         \* what update has read of the planned change (d.GetChange)
    stepErrs,     \* the update steps that returned an error
    clusters,     \* concurrent sessions: state of the cluster of each id
    sessions,     \* concurrent sessions: the poll session of each id
    image,        \* the server image data source: its input, data and result
    project,      \* the pipeline project resource: operation, data, result
    pollKind,     \* "none", "active" or "deletion"
    pollPc,       \* "idle", "delay", "refresh", "fetching", "wait", "returned"
    pollTimeout,  \* Timeout of the current StateChangeConf
    elapsed,      \* seconds since the poll session started
    wait,         \* current interval of the poll loop
    lookups,      \* what each cluster lookup of the session answered
    fetched,      \* what each Refresh call of the session reported
    fetchAt,      \* the session time of each Refresh call
    inFlight,     \* cluster lookups issued and not yet returned
    outcome       \* result of the session

vars == <<svc, op, timeouts, ctx, pc, d, remote, calls, opResult, failedAt,
          diff, stepErrs, clusters, sessions, image, project,
          pollKind, pollPc, pollTimeout, elapsed, wait, lookups, fetched,
          fetchAt, inFlight, outcome>>

pollVars == <<pollKind, pollPc, pollTimeout, elapsed, wait, lookups,
              fetched, fetchAt, inFlight, outcome>>

confVars == <<svc, op, timeouts, ctx>>

updVars == <<diff, stepErrs>>

isoVars == <<clusters, sessions>>

imgVars == <<image>>

prjVars == <<project>>

\* the planned change before update has read any of it
NoDiff == [old |-> 0, new |-> 0, added |-> 0, codes |-> {}]

UpdateSteps == {"cfg", "pw", "count", "code"}
UpdateCalls == {"setConfigGroup", "resetPassword", "addNodes", "changeSpec"}

(* ---- the cluster lookup ---- *)
\* what GetClusterInfo can answer for a remote state: a failed call (a
\* generic API error, or a not-found style error when there is no cluster),
\* or a response whose Result is the cluster (nil when there is none)
LookupResponses(r) ==
    {[err |-> "api", result |-> "nil"]}
    \cup (IF r = "absent"
          THEN {[err |-> "notfound", result |-> "nil"],
                [err |-> "none", result |-> "nil"]}
          ELSE {[err |-> "none", result |-> r]})

\* GetSESCluster: (nil, err) on a failed call, else (resp.Result, nil)
GetSESCluster(resp) ==
    IF resp.err # "none"
    THEN [cluster |-> "nil", err |-> resp.err]
    ELSE [cluster |-> resp.result, err |-> "none"]

\* getCDSSCluster: (nil, err) on a failed call, else (resp.Result, nil)
getCDSSCluster(resp) ==
    IF resp.err # "none"
    THEN [cluster |-> "nil", err |-> resp.err]
    ELSE [cluster |-> resp.result, err |-> "none"]

(* ---- the Refresh callbacks: (result, state, err) ---- *)
\* mutant: the lookup error is swallowed and reported as the null state
waitForSESClusterActive_Refresh_SwallowsError(resp) ==
    LET g == GetSESCluster(resp) IN
    IF g.err # "none" \/ g.cluster = "nil"
    THEN [result |-> "id", state |-> SESStatusNullCode, err |-> "none"]
    ELSE [result |-> "cluster", state |-> g.cluster, err |-> "none"]

waitForSESClusterActive_Refresh(resp) ==
    LET g == GetSESCluster(resp) IN
    IF g.err # "none" THEN [result |-> "nil", state |-> "", err |-> g.err]
    ELSE IF g.cluster = "nil"
         THEN [result |-> "id", state |-> SESStatusNullCode, err |-> "none"]
         ELSE [result |-> "cluster", state |-> g.cluster, err |-> "none"]

waitForSESClusterDeletion_Refresh(resp) ==
    LET g == GetSESCluster(resp) IN
    IF g.err # "none" THEN [result |-> "nil", state |-> "", err |-> g.err]
    ELSE IF g.cluster = "nil"
         THEN [result |-> "id", state |-> SESStatusNullCode, err |-> "none"]
         ELSE [result |-> "cluster", state |-> g.cluster, err |-> "none"]

waitForCDSSClusterActive_Refresh(resp) ==
    LET g == getCDSSCluster(resp) IN
    IF g.err # "none" THEN [result |-> "nil", state |-> "", err |-> g.err]
    ELSE IF g.cluster = "nil"
         THEN [result |-> "id", state |-> CDSSStatusNull, err |-> "none"]
         ELSE [result |-> "cluster", state |-> g.cluster, err |-> "none"]

waitForCDSSClusterDeletion_Refresh(resp) ==
    LET g == getCDSSCluster(resp) IN
    IF g.err # "none" THEN [result |-> "nil", state |-> "", err |-> g.err]
    ELSE IF g.cluster = "nil"
         THEN [result |-> "id", state |-> CDSSStatusNull, err |-> "none"]
         ELSE [result |-> "cluster", state |-> g.cluster, err |-> "none"]

Refresh(s, k, resp) ==
    IF s = "ses"
    THEN (IF k = "active" THEN waitForSESClusterActive_Refresh(resp)
          ELSE waitForSESClusterDeletion_Refresh(resp))
    ELSE (IF k = "active" THEN waitForCDSSClusterActive_Refresh(resp)
          ELSE waitForCDSSClusterDeletion_Refresh(resp))

(* ---- the Pending and Target sets of the four StateChangeConf ---- *)
\* mutant: the Pending set of the deletion poll is used
waitForSESClusterActive_Pending_AsDeletion == {SESStatusRunningCode, SESStatusDeletingCode}
waitForSESClusterActive_Pending == {SESStatusCreatingCode, SESStatusChangingCode}
\* mutant: the Target of the deletion poll is used
waitForSESClusterActive_Target_AsDeletion == {SESStatusReturnCode}
\* mutant: changing counts as a target state too
waitForSESClusterActive_Target_AlsoChanging == {SESStatusRunningCode, SESStatusChangingCode}
waitForSESClusterActive_Target == {SESStatusRunningCode}
waitForSESClusterDeletion_Pending == {SESStatusRunningCode, SESStatusDeletingCode}
waitForSESClusterDeletion_Target == {SESStatusReturnCode}
\* mutant: changing is missing from the Pending set
waitForCDSSClusterActive_Pending_NoChanging == {CDSSStatusCreating}
\* mutant: error is listed as a pending state
waitForCDSSClusterActive_Pending_WithError == {CDSSStatusCreating, CDSSStatusChanging, CDSSStatusError}
waitForCDSSClusterActive_Pending == {CDSSStatusCreating, CDSSStatusChanging}
\* mutant: null counts as a target state
waitForCDSSClusterActive_Target_WithNull == {CDSSStatusRunning, CDSSStatusNull}
waitForCDSSClusterActive_Target == {CDSSStatusRunning}
waitForCDSSClusterDeletion_Pending == {CDSSStatusDeleting}
waitForCDSSClusterDeletion_Target == {CDSSStatusReturn}

Pending(s, k) ==
    IF s = "ses"
    THEN (IF k = "active" THEN waitForSESClusterActive_Pending
          ELSE waitForSESClusterDeletion_Pending)
    ELSE (IF k = "active" THEN waitForCDSSClusterActive_Pending
          ELSE waitForCDSSClusterDeletion_Pending)

Target(s, k) ==
    IF s = "ses"
    THEN (IF k = "active" THEN waitForSESClusterActive_Target
          ELSE waitForSESClusterDeletion_Target)
    ELSE (IF k = "active" THEN waitForCDSSClusterActive_Target
          ELSE waitForCDSSClusterDeletion_Target)

(* ---- the Timeout of the StateChangeConf ---- *)
\* both active polls read d.Timeout(schema.TimeoutCreate)
waitForSESClusterActive_Timeout(t) == t.create
waitForCDSSClusterActive_Timeout(t) == t.create
\* both deletion polls read d.Timeout(schema.TimeoutDelete)
\* mutant: the deletion poll reads the create timeout
waitForSESClusterDeletion_Timeout_AsCreate(t) == t.create
waitForSESClusterDeletion_Timeout(t) == t.delete
waitForCDSSClusterDeletion_Timeout(t) == t.delete

ConfTimeout(s, k, t) ==
    IF s = "ses"
    THEN (IF k = "active" THEN waitForSESClusterActive_Timeout(t)
          ELSE waitForSESClusterDeletion_Timeout(t))
    ELSE (IF k = "active" THEN waitForCDSSClusterActive_Timeout(t)
          ELSE waitForCDSSClusterDeletion_Timeout(t))

(* ---- the poll loop (WaitForStateContext) ---- *)
\* how one Refresh return is classified by the loop
Classify(r, pending, target) ==
    IF r.err # "none" THEN "FetchFailed"
    ELSE IF r.state \in target THEN "success"
    ELSE IF r.state \in pending THEN "pending"
    ELSE "UnexpectedState"

\* the interval before the next Refresh: doubled, at least MinTimeout,
\* capped at MaxInterval
NextWait(w) ==
    LET dbl == 2 * w IN
    IF dbl < MinTimeout THEN MinTimeout
    ELSE IF dbl > MaxInterval THEN MaxInterval
    ELSE dbl

\* what a lookup is recorded as in the session history
LookupLabel(resp) ==
    IF resp.err = "api" THEN "<api error>"
    ELSE IF resp.err = "notfound" THEN "<notfound error>"
    ELSE IF resp.result = "nil" THEN "<no cluster>"
    ELSE resp.result

\* what a Refresh call is recorded as in the session history
Label(r) ==
    IF r.err = "api" THEN "<api error>"
    ELSE IF r.err = "notfound" THEN "<notfound error>"
    ELSE r.state

(* ---- Read: the lookup that refreshes the local resource data ---- *)
\* resourceNcloudSESClusterRead: a failed lookup returns the error; no
\* cluster, or a cluster in status return, clears the id; otherwise the id
\* and the attributes are set from the cluster
resourceNcloudSESClusterRead(dd, resp) ==
    LET g == GetSESCluster(resp) IN
    IF g.err # "none" THEN [d |-> dd, err |-> TRUE]
    ELSE IF g.cluster = "nil" \/ g.cluster = SESStatusReturnCode
         THEN [d |-> [dd EXCEPT !.id = ""], err |-> FALSE]
         ELSE [d |-> [id |-> ClusterId, attrs |-> "set"], err |-> FALSE]

\* resourceNcloudCDSSClusterRead: a failed lookup returns the error; no
\* cluster clears the id; otherwise the attributes are set from the cluster
resourceNcloudCDSSClusterRead(dd, resp) ==
    LET g == getCDSSCluster(resp) IN
    IF g.err # "none" THEN [d |-> dd, err |-> TRUE]
    ELSE IF g.cluster = "nil"
         THEN [d |-> [dd EXCEPT !.id = ""], err |-> FALSE]
         ELSE [d |-> [dd EXCEPT !.attrs = "set"], err |-> FALSE]

ClusterRead(s, dd, resp) ==
    IF s = "ses" THEN resourceNcloudSESClusterRead(dd, resp)
    ELSE resourceNcloudCDSSClusterRead(dd, resp)

(* ---- the server image data source ---- *)
\* the image products the API knows
ImageProducts ==
    {[ProductCode |-> "IMG.LNX.A", PlatformType |-> "LNX64",
      ProductName |-> "centos"],
     [ProductCode |-> "IMG.LNX.B", PlatformType |-> "LNX64",
      ProductName |-> "ubuntu"],
     [ProductCode |-> "IMG.WND.A", PlatformType |-> "WND64",
      ProductName |-> "windows"]}

\* longest product list the API answers with
MaxProducts == 2

\* the product lists GetServerImageProductList can answer with
ProductLists ==
    {l \in UNION {[1..n -> ImageProducts] : n \in 0..MaxProducts} :
        \A i, j \in DOMAIN l : i # j => l[i] # l[j]}

\* the filter blocks of the configuration the model draws from
ImageFilters ==
    {[name |-> "product_code", values |-> {"IMG.LNX.A"}],
     [name |-> "platform_type", values |-> {"LNX64"}],
     [name |-> "platform_type", values |-> {"WND64"}],
     [name |-> "product_name", values |-> {"ubuntu", "windows"}]}

\* the data of the data source before Read: the configured arguments
ImageData(code, platform) ==
    [id |-> "", product_code |-> code, platform_type |-> platform,
     product_name |-> ""]

\* the data source is not in use
NoImage ==
    [pc |-> "none", filter |-> <<>>, response |-> <<>>, apiErr |-> FALSE,
     d |-> ImageData("", ""), err |-> FALSE]

\* getVpcServerImageProductList: one map per product of the response
getVpcServerImageProductList(resp) ==
    [i \in DOMAIN resp |->
        [id |-> resp[i].ProductCode,
         product_code |-> resp[i].ProductCode,
         platform_type |-> resp[i].PlatformType,
         product_name |-> resp[i].ProductName]]

\* ApplyFilters: the resources whose field of each filter's name is one of
\* the filter's values, in their order
ApplyFilters(f, resources) ==
    SelectSeq(resources,
              LAMBDA r : \A k \in DOMAIN f : r[f[k].name] \in f[k].values)

\* mutant: the filter blocks of the configuration are not applied
getServerImageProductListFiltered_NoFilter(f, resp) ==
    getVpcServerImageProductList(resp)

\* getServerImageProductListFiltered: the product maps, filtered when the
\* configuration has filter blocks
getServerImageProductListFiltered(f, resp) ==
    IF f # <<>> THEN ApplyFilters(f, getVpcServerImageProductList(resp))
    ELSE getVpcServerImageProductList(resp)

\* ValidateOneResult: an error unless the count is exactly one
ValidateOneResult(resultCount) == resultCount # 1

\* SetSingularResourceDataFromMap: the id and every other field of the map
\* are set on the data
SetSingularResourceDataFromMap(dd, r) ==
    [dd EXCEPT !.id = r.id, !.product_code = r.product_code,
               !.platform_type = r.platform_type,
               !.product_name = r.product_name]

(* ---- the pipeline project resource ---- *)
\* the id the API assigns to the project
ProjectId == "7"

\* the remote project: none, or one whose tasks Read can or cannot convert
ProjectStates == {"absent", "present", "badtask"}

\* the pipeline project resource is not in use
NoProject ==
    [op |-> "none", pc |-> "none", d |-> [id |-> "", attrs |-> "unset"],
     remote |-> "absent", calls |-> <<>>, lookup |-> "none",
     result |-> "running"]

\* GetProject: a failed call, or a response that is the project (nil when
\* there is none)
GetProjectResponses(r) ==
    {[err |-> "api", result |-> "nil"]}
    \cup (IF r = "absent"
          THEN {[err |-> "notfound", result |-> "nil"],
                [err |-> "none", result |-> "nil"]}
          ELSE {[err |-> "none", result |-> r]})

\* GetPipelineProject: (nil, err) on a failed call, else the converted
\* response, nil for a nil response
GetPipelineProject(resp) ==
    IF resp.err # "none"
    THEN [project |-> "nil", err |-> resp.err]
    ELSE [project |-> resp.result, err |-> "none"]

\* mutant: Read returns an error when the project is gone
resourceNcloudSourcePipelineRead_GoneIsError(dd, resp) ==
    LET g == GetPipelineProject(resp) IN
    IF g.err # "none" \/ g.project = "nil" THEN [d |-> dd, err |-> TRUE]
    ELSE IF g.project = "badtask" THEN [d |-> dd, err |-> TRUE]
    ELSE [d |-> [id |-> ProjectId, attrs |-> "set"], err |-> FALSE]

\* resourceNcloudSourcePipelineRead: a failed lookup returns the error; no
\* project clears the id; a project whose task data cannot be made returns
\* the error; otherwise the id and the attributes are set from the project
resourceNcloudSourcePipelineRead(dd, resp) ==
    LET g == GetPipelineProject(resp) IN
    IF g.err # "none" THEN [d |-> dd, err |-> TRUE]
    ELSE IF g.project = "nil"
         THEN [d |-> [dd EXCEPT !.id = ""], err |-> FALSE]
    ELSE IF g.project = "badtask" THEN [d |-> dd, err |-> TRUE]
    ELSE [d |-> [id |-> ProjectId, attrs |-> "set"], err |-> FALSE]

\* no concurrent session
NoSession ==
    [svc |-> "none", kind |-> "none", timeout |-> 0, pollPc |-> "idle",
     elapsed |-> 0, wait |-> 0, lookups |-> <<>>, fetched |-> <<>>,
     outcome |-> "none"]

\* mutant: the lookup asks for the first cluster whatever id it is given
GetClusterInfo_FirstCluster(cl, id) == LookupResponses(cl[ClusterId])

\* the lookup of a cluster by the id the Refresh closure captured
GetClusterInfo(cl, id) == LookupResponses(cl[id])

TypeOK ==
    /\ svc \in Services
    /\ op \in Operations \cup {"read"}
    /\ timeouts \in [create : TimeoutChoices, update : TimeoutChoices,
                      delete : TimeoutChoices]
    /\ ctx \in {"live", "canceled"}
    /\ pc \in {"start", "create_wait", "create_read", "delete_prewait",
               "delete_wait", "done", "cfg_pre", "cfg_post", "pw", "pw_pre",
               "pw_post", "count", "count_pre", "count_post", "code",
               "code_pre", "code_post"}
    /\ d \in [id : {"", ClusterId}, attrs : {"unset", "set"}]
    /\ remote \in RemoteStates
    /\ calls \in Seq({"create", "delete"} \cup UpdateCalls)
    /\ opResult \in {"running", "ok", "error", "panic"}
    /\ failedAt \in {"none", "call", "prepoll", "poll", "read"} \cup UpdateSteps
    /\ diff \in [old : 0..MaxNodeCount, new : 0..MaxNodeCount,
                  added : 0..MaxNodeCount,
                  codes : SUBSET (SESNodeTypes \cup CDSSNodeTypes)]
    /\ stepErrs \subseteq UpdateSteps
    /\ clusters \in [ClusterIds -> RemoteStates]
    /\ DOMAIN sessions = ClusterIds
    /\ image.pc \in {"none", "start", "done"}
    /\ project.op \in {"none", "create", "read", "update", "delete"}
    /\ project.pc \in {"none", "start", "read", "done"}
    /\ project.remote \in ProjectStates
    /\ project.result \in {"running", "ok", "error"}
    /\ pollKind \in {"none", "active", "deletion"}
    /\ pollPc \in {"idle", "delay", "refresh", "fetching", "wait", "returned"}
    /\ pollTimeout \in TimeoutChoices \cup {0}
    /\ elapsed \in 0..LongTimeout
    /\ wait \in 0..MaxInterval
    /\ lookups \in Seq(STRING)
    /\ fetched \in Seq(STRING)
    /\ fetchAt \in Seq(0..LongTimeout)
    /\ inFlight \in 0..2
    /\ outcome \in {"none", "success", "Timeout", "UnexpectedState",
                    "FetchFailed", "Canceled"}

Init ==
    /\ svc \in Services
    /\ op \in Operations
    /\ timeouts \in [create : TimeoutChoices, update : TimeoutChoices,
                      delete : TimeoutChoices]
    /\ op = "update" => (/\ timeouts.delete = timeouts.create
                          /\ timeouts.update \in {TinyTimeout, LongTimeout})
    /\ op # "update" => timeouts.update = timeouts.create
    /\ ctx = "live"
    /\ pc = "start"
    /\ d = IF op = "create" THEN [id |-> "", attrs |-> "unset"]
           ELSE [id |-> ClusterId, attrs |-> "set"]
    /\ remote \in RemoteStates
    /\ calls = <<>>
    /\ opResult = "running"
    /\ failedAt = "none"
    /\ diff = NoDiff
    /\ stepErrs = {}
    /\ clusters = [i \in ClusterIds |-> "absent"]
    /\ sessions = [i \in ClusterIds |-> NoSession]
    /\ image = NoImage
    /\ project = NoProject
    /\ pollKind = "none"
    /\ pollPc = "idle"
    /\ pollTimeout = 0
    /\ elapsed = 0
    /\ wait = 0
    /\ lookups = <<>>
    /\ fetched = <<>>
    /\ fetchAt = <<>>
    /\ inFlight = 0
    /\ outcome = "none"

(* ---- the poll session ---- *)
\* a StateChangeConf is built and WaitForStateContext is entered
StartPoll(k) ==
    /\ pollKind' = k
    /\ pollPc' = "delay"
    /\ pollTimeout' = ConfTimeout(svc, k, timeouts)
    /\ elapsed' = 0
    /\ wait' = 0
    /\ lookups' = <<>>
    /\ fetched' = <<>>
    /\ fetchAt' = <<>>
    /\ inFlight' = 0
    /\ outcome' = "none"

\* the initial Delay, cut short by the Timeout
PollDelay ==
    /\ pollPc = "delay"
    /\ \/ /\ Delay <= pollTimeout
          /\ elapsed' = Delay
          /\ pollPc' = "refresh"
          /\ outcome' = outcome
       \/ /\ Delay >= pollTimeout
          /\ elapsed' = pollTimeout
          /\ pollPc' = "returned"
          /\ outcome' = "Timeout"
    /\ UNCHANGED <<confVars, prjVars, imgVars, updVars, isoVars, pc, d, remote, calls, opResult, failedAt,
                   pollKind, pollTimeout, wait, lookups, fetched, fetchAt,
                   inFlight>>

\* mutant: the tick clears the local id when the lookup finds no cluster,
\* as Read does
PollRefresh_ClearsId ==
    /\ pollPc = "fetching"
    /\ \E resp \in LookupResponses(remote) :
          LET r == Refresh(svc, pollKind, resp)
              c == Classify(r, Pending(svc, pollKind), Target(svc, pollKind))
          IN /\ lookups' = Append(lookups, LookupLabel(resp))
             /\ fetched' = Append(fetched, Label(r))
             /\ inFlight' = inFlight - 1
             /\ d' = IF r.state = "null" THEN [d EXCEPT !.id = ""] ELSE d
             /\ IF c = "pending"
                THEN /\ pollPc' = "wait"
                     /\ wait' = NextWait(wait)
                     /\ outcome' = outcome
                ELSE /\ pollPc' = "returned"
                     /\ wait' = wait
                     /\ outcome' = c
    /\ UNCHANGED <<confVars, prjVars, imgVars, updVars, isoVars, pc, remote, calls, opResult, failedAt,
                   pollKind, pollTimeout, elapsed, fetchAt>>

\* mutant: the lookup is started without waiting for its answer
PollRefresh_Call_Async ==
    /\ pollPc = "refresh"
    /\ inFlight < 2
    /\ fetchAt' = Append(fetchAt, elapsed)
    /\ inFlight' = inFlight + 1
    /\ pollPc' = IF inFlight = 0 THEN "refresh" ELSE "fetching"
    /\ UNCHANGED <<confVars, prjVars, imgVars, updVars, isoVars, pc, d, remote, calls, opResult, failedAt,
                   pollKind, pollTimeout, elapsed, wait, lookups, fetched,
                   outcome>>

\* one tick begins: the loop calls Refresh, which issues the cluster lookup
\* and blocks until it answers
PollRefresh_Call ==
    /\ pollPc = "refresh"
    /\ fetchAt' = Append(fetchAt, elapsed)
    /\ inFlight' = inFlight + 1
    /\ pollPc' = "fetching"
    /\ UNCHANGED <<confVars, prjVars, imgVars, updVars, isoVars, pc, d, remote, calls, opResult, failedAt,
                   pollKind, pollTimeout, elapsed, wait, lookups, fetched,
                   outcome>>

\* the tick ends: the lookup answers, Refresh returns and the loop
\* classifies what it reported
PollRefresh ==
    /\ pollPc = "fetching"
    /\ \E resp \in LookupResponses(remote) :
          LET r == Refresh(svc, pollKind, resp)
              c == Classify(r, Pending(svc, pollKind), Target(svc, pollKind))
          IN /\ lookups' = Append(lookups, LookupLabel(resp))
             /\ fetched' = Append(fetched, Label(r))
             /\ inFlight' = inFlight - 1
             /\ IF c = "pending"
                THEN /\ pollPc' = "wait"
                     /\ wait' = NextWait(wait)
                     /\ outcome' = outcome
                ELSE /\ pollPc' = "returned"
                     /\ wait' = wait
                     /\ outcome' = c
    /\ UNCHANGED <<confVars, prjVars, imgVars, updVars, isoVars, pc, d, remote, calls, opResult, failedAt,
                   pollKind, pollTimeout, elapsed, fetchAt>>

\* the interval before the next tick, cut short by the Timeout
PollWait ==
    /\ pollPc = "wait"
    /\ \/ /\ elapsed + wait <= pollTimeout
          /\ elapsed' = elapsed + wait
          /\ pollPc' = "refresh"
          /\ outcome' = outcome
       \/ /\ elapsed + wait >= pollTimeout
          /\ elapsed' = pollTimeout
          /\ pollPc' = "returned"
          /\ outcome' = "Timeout"
    /\ UNCHANGED <<confVars, prjVars, imgVars, updVars, isoVars, pc, d, remote, calls, opResult, failedAt,
                   pollKind, pollTimeout, wait, lookups, fetched, fetchAt,
                   inFlight>>

(* ---- the remote system changes the cluster on its own ---- *)
\* the cluster is seen only through a lookup: its changes are taken while a
\* lookup is in flight (a status query of a poll, or the lookup of Read)
RemoteStep ==
    /\ pc # "done"
    /\ pollPc = "fetching" \/ pc = "create_read"
    /\ remote' \in RemoteStates \ {remote}
    /\ UNCHANGED <<confVars, prjVars, imgVars, updVars, isoVars, pc, d, calls, opResult, failedAt, pollVars>>

(* ---- helper: the handler returns ---- *)
Return(res, at) ==
    /\ pc' = "done"
    /\ opResult' = res
    /\ failedAt' = at

(* ---- create ---- *)
\* the create API call; on success the active poll is entered with the id
\* of the response, the local id still unset
ClusterCreate_Call(s) ==
    /\ svc = s /\ op = "create" /\ pc = "start"
    /\ calls' = Append(calls, "create")
    /\ \/ /\ Return("error", "call")
          /\ UNCHANGED pollVars
       \/ /\ pc' = "create_wait"
          /\ StartPoll("active")
          /\ UNCHANGED <<opResult, failedAt>>
    /\ UNCHANGED <<confVars, prjVars, imgVars, updVars, isoVars, d, remote>>

\* mutant: d.SetId(id) is done before the outcome of the poll is looked at
ClusterCreate_AfterPoll_SetsIdFirst(s) ==
    /\ svc = s /\ pc = "create_wait" /\ pollPc = "returned"
    /\ d' = [d EXCEPT !.id = ClusterId]
    /\ IF outcome # "success"
       THEN Return("error", "poll")
       ELSE /\ pc' = "create_read"
            /\ UNCHANGED <<opResult, failedAt>>
    /\ UNCHANGED <<confVars, prjVars, imgVars, updVars, isoVars, remote, calls, pollVars>>

\* the active poll returned: its error is returned, else d.SetId(id)
ClusterCreate_AfterPoll(s) ==
    /\ svc = s /\ pc = "create_wait" /\ pollPc = "returned"
    /\ IF outcome # "success"
       THEN /\ Return("error", "poll")
            /\ d' = d
       ELSE /\ pc' = "create_read"
            /\ d' = [d EXCEPT !.id = ClusterId]
            /\ UNCHANGED <<opResult, failedAt>>
    /\ UNCHANGED <<confVars, prjVars, imgVars, updVars, isoVars, remote, calls, pollVars>>

\* create ends with a Read of the new cluster
ClusterCreate_Read(s) ==
    /\ svc = s /\ pc = "create_read"
    /\ \E resp \in LookupResponses(remote) :
          LET r == ClusterRead(s, d, resp)
          IN /\ d' = r.d
             /\ IF r.err THEN Return("error", "read")
                ELSE Return("ok", "none")
    /\ UNCHANGED <<confVars, prjVars, imgVars, updVars, isoVars, remote, calls, pollVars>>

resourceNcloudSESClusterCreate_Call == ClusterCreate_Call("ses")
resourceNcloudSESClusterCreate_AfterPoll == ClusterCreate_AfterPoll("ses")
resourceNcloudSESClusterCreate_Read == ClusterCreate_Read("ses")
resourceNcloudCDSSClusterCreate_Call == ClusterCreate_Call("cdss")
resourceNcloudCDSSClusterCreate_AfterPoll == ClusterCreate_AfterPoll("cdss")
resourceNcloudCDSSClusterCreate_Read == ClusterCreate_Read("cdss")

(* ---- delete ---- *)
\* delete first waits for the cluster to be active
ClusterDelete_Start(s) ==
    /\ svc = s /\ op = "delete" /\ pc = "start"
    /\ pc' = "delete_prewait"
    /\ StartPoll("active")
    /\ UNCHANGED <<confVars, prjVars, imgVars, updVars, isoVars, d, remote, calls, opResult, failedAt>>

\* mutant: the delete API call is issued whatever the active poll returned
ClusterDelete_Call_Unchecked(s) ==
    /\ svc = s /\ pc = "delete_prewait" /\ pollPc = "returned"
    /\ calls' = Append(calls, "delete")
    /\ \/ /\ Return("error", "call")
          /\ UNCHANGED pollVars
       \/ /\ pc' = "delete_wait"
          /\ StartPoll("deletion")
          /\ UNCHANGED <<opResult, failedAt>>
    /\ UNCHANGED <<confVars, prjVars, imgVars, updVars, isoVars, d, remote>>

\* the active poll returned: its error is returned, else the delete API
\* call is issued and, when accepted, the deletion poll is entered
ClusterDelete_Call(s) ==
    /\ svc = s /\ pc = "delete_prewait" /\ pollPc = "returned"
    /\ IF outcome # "success"
       THEN /\ Return("error", "prepoll")
            /\ UNCHANGED <<calls, pollVars>>
       ELSE /\ calls' = Append(calls, "delete")
            /\ \/ /\ Return("error", "call")
                  /\ UNCHANGED pollVars
               \/ /\ pc' = "delete_wait"
                  /\ StartPoll("deletion")
                  /\ UNCHANGED <<opResult, failedAt>>
    /\ UNCHANGED <<confVars, prjVars, imgVars, updVars, isoVars, d, remote>>

\* mutant: a failed deletion poll issues the delete call once more and
\* polls again
ClusterDelete_AfterPoll_Retries(s) ==
    /\ svc = s /\ pc = "delete_wait" /\ pollPc = "returned"
    /\ IF outcome # "success" /\ Len(calls) < 2
       THEN /\ calls' = Append(calls, "delete")
            /\ StartPoll("deletion")
            /\ UNCHANGED <<pc, opResult, failedAt>>
       ELSE /\ IF outcome # "success"
               THEN Return("error", "poll")
               ELSE Return("ok", "none")
            /\ UNCHANGED <<calls, pollVars>>
    /\ UNCHANGED <<confVars, prjVars, imgVars, updVars, isoVars, d, remote>>

\* the deletion poll returned: delete returns its error, or nil
ClusterDelete_AfterPoll(s) ==
    /\ svc = s /\ pc = "delete_wait" /\ pollPc = "returned"
    /\ IF outcome # "success"
       THEN Return("error", "poll")
       ELSE Return("ok", "none")
    /\ UNCHANGED <<confVars, prjVars, imgVars, updVars, isoVars, d, remote, calls, pollVars>>

resourceNcloudSESClusterDelete_Start == ClusterDelete_Start("ses")
resourceNcloudSESClusterDelete_Call == ClusterDelete_Call("ses")
resourceNcloudSESClusterDelete_AfterPoll == ClusterDelete_AfterPoll("ses")
resourceNcloudCDSSClusterDelete_Start == ClusterDelete_Start("cdss")
resourceNcloudCDSSClusterDelete_Call == ClusterDelete_Call("cdss")
resourceNcloudCDSSClusterDelete_AfterPoll == ClusterDelete_AfterPoll("cdss")

(* ---- update ---- *)
\* mutant: the error of the password step is dropped and update goes on
resourceNcloudSESClusterUpdate_OnErr_DropsFirst(at, next) ==
    IF at = "pw"
    THEN /\ pc' = next
         /\ UNCHANGED <<opResult, failedAt>>
    ELSE Return("error", at)

\* resourceNcloudSESClusterUpdate: the error of a step is returned
resourceNcloudSESClusterUpdate_OnErr(at, next) ==
    Return("error", at)

\* resourceNcloudCDSSClusterUpdate: the diagnostics of the config group and
\* CMAK password steps are dropped and update goes on with the next step;
\* the error of the node count and product code steps is returned
resourceNcloudCDSSClusterUpdate_OnErr(at, next) ==
    IF at \in {"cfg", "pw"}
    THEN /\ pc' = next
         /\ UNCHANGED <<opResult, failedAt>>
    ELSE Return("error", at)

\* a step function returns an error to update
StepErr(s, at, next) ==
    /\ stepErrs' = stepErrs \cup {at}
    /\ IF s = "ses" THEN resourceNcloudSESClusterUpdate_OnErr(at, next)
       ELSE resourceNcloudCDSSClusterUpdate_OnErr(at, next)

\* a step function returns nil: update goes on, or returns nil after the
\* last step
StepDone(next) ==
    /\ stepErrs' = stepErrs
    /\ IF next = "done" THEN Return("ok", "none")
       ELSE /\ pc' = next
            /\ UNCHANGED <<opResult, failedAt>>

\* a step whose change is present waits for the cluster to be active first
StepStart(s, at, startPc, prePc, next) ==
    /\ svc = s /\ op = "update" /\ pc = startPc
    /\ \E changed \in BOOLEAN :
          IF changed
          THEN /\ pc' = prePc
               /\ StartPoll("active")
               /\ UNCHANGED <<opResult, failedAt, stepErrs>>
          ELSE /\ StepDone(next)
               /\ UNCHANGED pollVars
    /\ UNCHANGED <<confVars, prjVars, imgVars, isoVars, d, remote, calls, diff>>

\* mutant: the add-nodes request carries the new count
NewDataNodeCount_AsNew(o, n) == n

\* the count the add-nodes request carries: what is to be added
NewDataNodeCount(o, n) == n - o

\* the active poll before the call returned: its error is the error of the
\* step, else the mutating API call is issued and, when accepted, followed by
\* a second active poll
StepCall(s, at, prePc, postPc, call, next) ==
    /\ svc = s /\ op = "update" /\ pc = prePc /\ pollPc = "returned"
    /\ IF outcome # "success"
       THEN /\ StepErr(s, at, next)
            /\ UNCHANGED <<calls, diff, pollVars>>
       ELSE /\ calls' = Append(calls, call)
            /\ diff' = IF call = "addNodes"
                       THEN [diff EXCEPT
                               !.added = NewDataNodeCount(diff.old, diff.new)]
                       ELSE diff
            /\ \/ /\ StepErr(s, at, next)
                  /\ UNCHANGED pollVars
               \/ /\ pc' = postPc
                  /\ StartPoll("active")
                  /\ UNCHANGED <<opResult, failedAt, stepErrs>>
    /\ UNCHANGED <<confVars, prjVars, imgVars, isoVars, d, remote>>

\* the active poll after the call returned
StepAfterPoll(s, at, postPc, next) ==
    /\ svc = s /\ op = "update" /\ pc = postPc /\ pollPc = "returned"
    /\ IF outcome # "success" THEN StepErr(s, at, next) ELSE StepDone(next)
    /\ UNCHANGED <<confVars, prjVars, imgVars, isoVars, d, remote, calls, diff, pollVars>>

\* the node count step reads the old and the new count: an increase waits
\* for the cluster to be active, a decrease is an error, no change is nil
CountStart(s, next) ==
    /\ svc = s /\ op = "update" /\ pc = "count"
    /\ \E o \in NodeCounts, n \in NodeCounts :
          /\ diff' = [diff EXCEPT !.old = o, !.new = n]
          /\ IF o < n
             THEN /\ pc' = "count_pre"
                  /\ StartPoll("active")
                  /\ UNCHANGED <<opResult, failedAt, stepErrs>>
             ELSE /\ IF o > n THEN StepErr(s, "count", next)
                     ELSE StepDone(next)
                  /\ UNCHANGED pollVars
    /\ UNCHANGED <<confVars, prjVars, imgVars, isoVars, d, remote, calls>>

(* SES: password reset, data node count, node product code *)
checkSearchEngineChanged_Start ==
    StepStart("ses", "pw", "start", "pw_pre", "count")
checkSearchEngineChanged_Call ==
    StepCall("ses", "pw", "pw_pre", "pw_post", "resetPassword", "count")
checkSearchEngineChanged_AfterPoll ==
    StepAfterPoll("ses", "pw", "pw_post", "count")

checkDataNodeChanged_Start == CountStart("ses", "code")
checkDataNodeChanged_Call ==
    StepCall("ses", "count", "count_pre", "count_post", "addNodes", "code")
checkDataNodeChanged_AfterPoll ==
    StepAfterPoll("ses", "count", "count_post", "code")

\* getChangedNodeProductCode of the three node blocks: when one is not nil
\* the change-spec call is issued at once and followed by an active poll
checkNodeProductCodeChanged_Call ==
    /\ svc = "ses" /\ op = "update" /\ pc = "code"
    /\ \E codes \in SUBSET SESNodeTypes :
          /\ diff' = [diff EXCEPT !.codes = codes]
          /\ IF codes = {}
             THEN /\ StepDone("done")
                  /\ UNCHANGED <<calls, pollVars>>
             ELSE /\ calls' = Append(calls, "changeSpec")
                  /\ \/ /\ StepErr("ses", "code", "done")
                        /\ UNCHANGED pollVars
                     \/ /\ pc' = "code_post"
                        /\ StartPoll("active")
                        /\ UNCHANGED <<opResult, failedAt, stepErrs>>
    /\ UNCHANGED <<confVars, prjVars, imgVars, isoVars, d, remote>>

checkNodeProductCodeChanged_AfterPoll ==
    StepAfterPoll("ses", "code", "code_post", "done")

(* CDSS: config group, CMAK password, broker node count, product code *)
checkConfigGroupNoChanged_Start ==
    StepStart("cdss", "cfg", "start", "cfg_pre", "pw")
checkConfigGroupNoChanged_Call ==
    StepCall("cdss", "cfg", "cfg_pre", "cfg_post", "setConfigGroup", "pw")
checkConfigGroupNoChanged_AfterPoll ==
    StepAfterPoll("cdss", "cfg", "cfg_post", "pw")

checkCmakPasswordChanged_Start ==
    StepStart("cdss", "pw", "pw", "pw_pre", "count")
checkCmakPasswordChanged_Call ==
    StepCall("cdss", "pw", "pw_pre", "pw_post", "resetPassword", "count")
checkCmakPasswordChanged_AfterPoll ==
    StepAfterPoll("cdss", "pw", "pw_post", "count")

checkNodeCountChanged_Start == CountStart("cdss", "code")
checkNodeCountChanged_Call ==
    StepCall("cdss", "count", "count_pre", "count_post", "addNodes", "code")
checkNodeCountChanged_AfterPoll ==
    StepAfterPoll("cdss", "count", "count_post", "code")

\* getChangedCDSSNodeProductCode of the two node blocks: when one is not
\* nil the step waits for the cluster to be active
checkCDSSNodeProductCodeChanged_Start ==
    /\ svc = "cdss" /\ op = "update" /\ pc = "code"
    /\ \E codes \in SUBSET CDSSNodeTypes :
          /\ diff' = [diff EXCEPT !.codes = codes]
          /\ IF codes = {}
             THEN /\ StepDone("done")
                  /\ UNCHANGED pollVars
             ELSE /\ pc' = "code_pre"
                  /\ StartPoll("active")
                  /\ UNCHANGED <<opResult, failedAt, stepErrs>>
    /\ UNCHANGED <<confVars, prjVars, imgVars, isoVars, d, remote, calls>>

\* the request dereferences both product codes: a nil one (its block did
\* not change) is a nil pointer dereference, which panics
checkCDSSNodeProductCodeChanged_Call ==
    /\ svc = "cdss" /\ op = "update" /\ pc = "code_pre"
    /\ pollPc = "returned"
    /\ IF outcome # "success"
       THEN /\ StepErr("cdss", "code", "done")
            /\ UNCHANGED <<calls, pollVars>>
       ELSE IF diff.codes # CDSSNodeTypes
       THEN /\ Return("panic", "code")
            /\ UNCHANGED <<calls, stepErrs, pollVars>>
       ELSE /\ calls' = Append(calls, "changeSpec")
            /\ \/ /\ StepErr("cdss", "code", "done")
                  /\ UNCHANGED pollVars
               \/ /\ pc' = "code_post"
                  /\ StartPoll("active")
                  /\ UNCHANGED <<opResult, failedAt, stepErrs>>
    /\ UNCHANGED <<confVars, prjVars, imgVars, isoVars, d, remote, diff>>

checkCDSSNodeProductCodeChanged_AfterPoll ==
    StepAfterPoll("cdss", "code", "code_post", "done")

(* ---- cancellation of the context of the operation ---- *)
\* the caller of the handler cancels the context it passed
CtxCancel ==
    /\ ctx = "live" /\ pc # "done"
    /\ ctx' = "canceled"
    /\ UNCHANGED <<svc, op, timeouts, prjVars, imgVars, updVars, isoVars, pc, d, remote, calls,
                   opResult, failedAt, pollVars>>

\* WaitForStateContext(ctx): a session that has not returned returns the
\* error of the context once the context is done
PollCanceled ==
    /\ ctx = "canceled"
    /\ pollPc \in {"delay", "refresh", "fetching", "wait"}
    /\ pollPc' = "returned"
    /\ outcome' = "Canceled"
    /\ inFlight' = 0
    /\ UNCHANGED <<confVars, prjVars, imgVars, updVars, isoVars, pc, d, remote, calls, opResult,
                   failedAt, pollKind, pollTimeout, elapsed, wait, lookups,
                   fetched, fetchAt>>

(* ---- two poll sessions for different clusters, interleaved ---- *)
\* each call of a waitFor function builds its own StateChangeConf, whose
\* Refresh closure captures the id it was given
Other(i) == CHOOSE j \in ClusterIds : j # i

\* the operation variables at rest: only the two sessions run
OperationAtRest ==
    /\ svc = "ses" /\ op = "create"
    /\ timeouts = [create |-> ShortTimeout, update |-> ShortTimeout,
                   delete |-> ShortTimeout]
    /\ ctx = "live"
    /\ pc = "done" /\ opResult = "ok" /\ failedAt = "none"
    /\ d = [id |-> ClusterId, attrs |-> "set"]
    /\ remote = "absent" /\ calls = <<>>
    /\ diff = NoDiff /\ stepErrs = {}
    /\ pollKind = "none" /\ pollPc = "idle" /\ pollTimeout = 0
    /\ elapsed = 0 /\ wait = 0 /\ lookups = <<>> /\ fetched = <<>>
    /\ fetchAt = <<>> /\ inFlight = 0 /\ outcome = "none"

InitSessions ==
    /\ OperationAtRest
    /\ clusters = [i \in ClusterIds |-> "absent"]
    /\ image = NoImage
    /\ project = NoProject
    /\ \E s \in Services, k \in [ClusterIds -> {"active", "deletion"}],
          t \in [ClusterIds -> TimeoutChoices] :
          /\ t[OtherClusterId] # LongTimeout
          /\ sessions = [i \in ClusterIds |->
                          [NoSession EXCEPT !.svc = s, !.kind = k[i],
                                            !.timeout = t[i],
                                            !.pollPc = "delay"]]

\* the initial Delay of session i
SessionDelay(i) ==
    LET s == sessions[i] IN
    /\ s.pollPc = "delay"
    /\ \/ /\ Delay <= s.timeout
          /\ sessions' = [sessions EXCEPT ![i].elapsed = Delay,
                                          ![i].pollPc = "refresh"]
       \/ /\ Delay >= s.timeout
          /\ sessions' = [sessions EXCEPT ![i].elapsed = s.timeout,
                                          ![i].pollPc = "returned",
                                          ![i].outcome = "Timeout"]
    /\ UNCHANGED <<confVars, prjVars, imgVars, updVars, clusters, pc, d, remote, calls,
                   opResult, failedAt, pollVars>>

\* one tick of session i: its Refresh looks up the cluster of its own id
SessionRefresh(i) ==
    LET s == sessions[i] IN
    /\ s.pollPc = "refresh"
    /\ \E resp \in GetClusterInfo(clusters, i) :
          LET r == Refresh(s.svc, s.kind, resp)
              c == Classify(r, Pending(s.svc, s.kind), Target(s.svc, s.kind))
          IN sessions' =
               [sessions EXCEPT
                  ![i].lookups = Append(s.lookups, LookupLabel(resp)),
                  ![i].fetched = Append(s.fetched, Label(r)),
                  ![i].pollPc = IF c = "pending" THEN "wait" ELSE "returned",
                  ![i].wait = IF c = "pending" THEN NextWait(s.wait)
                              ELSE s.wait,
                  ![i].outcome = IF c = "pending" THEN s.outcome ELSE c]
    /\ UNCHANGED <<confVars, prjVars, imgVars, updVars, clusters, pc, d, remote, calls,
                   opResult, failedAt, pollVars>>

\* the interval of session i before its next tick
SessionWait(i) ==
    LET s == sessions[i] IN
    /\ s.pollPc = "wait"
    /\ \/ /\ s.elapsed + s.wait <= s.timeout
          /\ sessions' = [sessions EXCEPT ![i].elapsed = s.elapsed + s.wait,
                                          ![i].pollPc = "refresh"]
       \/ /\ s.elapsed + s.wait >= s.timeout
          /\ sessions' = [sessions EXCEPT ![i].elapsed = s.timeout,
                                          ![i].pollPc = "returned",
                                          ![i].outcome = "Timeout"]
    /\ UNCHANGED <<confVars, prjVars, imgVars, updVars, clusters, pc, d, remote, calls,
                   opResult, failedAt, pollVars>>

\* the cluster of id i changes on its own, seen by the next lookup of it
ClusterStep(i) ==
    /\ sessions[i].pollPc = "refresh"
    /\ \E st \in RemoteStates \ {clusters[i]} :
          clusters' = [clusters EXCEPT ![i] = st]
    /\ UNCHANGED <<confVars, prjVars, imgVars, updVars, sessions, pc, d, remote, calls,
                   opResult, failedAt, pollVars>>

NextSessions ==
    \E i \in ClusterIds :
       \/ SessionDelay(i)
       \/ SessionRefresh(i)
       \/ SessionWait(i)
       \/ ClusterStep(i)

SpecSessions == InitSessions /\ [][NextSessions]_vars

(* ---- Read of the server image data source ---- *)
InitImage ==
    /\ OperationAtRest
    /\ clusters = [i \in ClusterIds |-> "absent"]
    /\ sessions = [i \in ClusterIds |-> NoSession]
    /\ project = NoProject
    /\ \E code \in {"", "IMG.LNX.A"}, platform \in {"", "LNX64"},
          f \in {<<>>} \cup {<<x>> : x \in ImageFilters} :
          image = [NoImage EXCEPT !.pc = "start", !.filter = f,
                                  !.d = ImageData(code, platform)]

\* dataSourceNcloudServerImageRead: the error of the product list call is
\* returned; a filtered list of a length other than one is an error; else
\* the data is set from the one product
dataSourceNcloudServerImageRead ==
    /\ image.pc = "start"
    /\ \/ image' = [image EXCEPT !.pc = "done", !.apiErr = TRUE,
                                 !.err = TRUE]
       \/ \E resp \in ProductLists :
             LET resources ==
                   getServerImageProductListFiltered(image.filter, resp)
             IN IF ValidateOneResult(Len(resources))
                THEN image' = [image EXCEPT !.pc = "done",
                                            !.response = resp,
                                            !.err = TRUE]
                ELSE image' = [image EXCEPT
                                 !.pc = "done",
                                 !.response = resp,
                                 !.d = SetSingularResourceDataFromMap(
                                          image.d, resources[1])]
    /\ UNCHANGED <<confVars, prjVars, updVars, isoVars, pc, d, remote, calls,
                   opResult, failedAt, pollVars>>

NextImage == dataSourceNcloudServerImageRead

SpecImage == InitImage /\ [][NextImage]_vars

(* ---- Read as an operation of its own, and the pipeline project ---- *)
\* everything but the operation on the cluster at rest
PollAtRest ==
    /\ timeouts = [create |-> ShortTimeout, update |-> ShortTimeout,
                   delete |-> ShortTimeout]
    /\ ctx = "live"
    /\ calls = <<>> /\ diff = NoDiff /\ stepErrs = {}
    /\ pollKind = "none" /\ pollPc = "idle" /\ pollTimeout = 0
    /\ elapsed = 0 /\ wait = 0 /\ lookups = <<>> /\ fetched = <<>>
    /\ fetchAt = <<>> /\ inFlight = 0 /\ outcome = "none"
    /\ clusters = [i \in ClusterIds |-> "absent"]
    /\ sessions = [i \in ClusterIds |-> NoSession]
    /\ image = NoImage

\* a Read of an SES or CDSS cluster known locally, or an operation on a
\* pipeline project
InitResources ==
    /\ PollAtRest
    /\ \/ /\ svc \in Services /\ op = "read" /\ pc = "start"
          /\ opResult = "running" /\ failedAt = "none"
          /\ d \in [id : {ClusterId}, attrs : {"unset", "set"}]
          /\ remote \in RemoteStates
          /\ project = NoProject
       \/ /\ svc = "ses" /\ op = "create" /\ pc = "done"
          /\ opResult = "ok" /\ failedAt = "none"
          /\ d = [id |-> ClusterId, attrs |-> "set"]
          /\ remote = "absent"
          /\ \E o \in {"create", "read", "update", "delete"},
                r \in ProjectStates, a \in {"unset", "set"} :
                project =
                  [NoProject EXCEPT
                     !.op = o, !.pc = "start",
                     !.remote = IF o = "create" THEN "absent" ELSE r,
                     !.d = IF o = "create" THEN [id |-> "", attrs |-> a]
                           ELSE [id |-> ProjectId, attrs |-> a]]

\* Read of a cluster: the lookup is recorded, the data is what Read makes
\* of it, and the error of a failed lookup is returned
ClusterRead_Run(s) ==
    /\ svc = s /\ op = "read" /\ pc = "start"
    /\ \E resp \in LookupResponses(remote) :
          LET r == ClusterRead(s, d, resp)
          IN /\ d' = r.d
             /\ lookups' = Append(lookups, LookupLabel(resp))
             /\ IF r.err THEN Return("error", "read")
                ELSE Return("ok", "none")
    /\ UNCHANGED <<confVars, prjVars, imgVars, updVars, isoVars, remote,
                   calls, pollKind, pollPc, pollTimeout, elapsed, wait,
                   fetched, fetchAt, inFlight, outcome>>

resourceNcloudSESClusterRead_Run == ClusterRead_Run("ses")
resourceNcloudCDSSClusterRead_Run == ClusterRead_Run("cdss")

\* the frame of the pipeline project actions
ProjectFrame ==
    UNCHANGED <<confVars, imgVars, updVars, isoVars, pc, d, remote, calls,
                opResult, failedAt, pollVars>>

\* resourceNcloudSourcePipelineCreate: the error of the create call is
\* returned; else the id of the response is set and Read follows
resourceNcloudSourcePipelineCreate ==
    /\ project.op = "create" /\ project.pc = "start"
    /\ \/ project' = [project EXCEPT !.pc = "done", !.result = "error"]
       \/ project' = [project EXCEPT !.pc = "done", !.result = "error",
                                     !.calls = Append(@, "create")]
       \/ \E r \in ProjectStates \ {"absent"} :
             project' = [project EXCEPT !.pc = "read", !.remote = r,
                                        !.calls = Append(@, "create"),
                                        !.d = [@ EXCEPT !.id = ProjectId]]
    /\ ProjectFrame

\* resourceNcloudSourcePipelineUpdate: when something but the name changed
\* the change call is issued and its error returned; Read follows
resourceNcloudSourcePipelineUpdate ==
    /\ project.op = "update" /\ project.pc = "start"
    /\ \E changed \in BOOLEAN :
          IF changed
          THEN \/ project' = [project EXCEPT !.pc = "done",
                                             !.result = "error"]
               \/ project' = [project EXCEPT !.pc = "done",
                                             !.result = "error",
                                             !.calls = Append(@, "change")]
               \/ project' = [project EXCEPT !.pc = "read",
                                             !.calls = Append(@, "change")]
          ELSE project' = [project EXCEPT !.pc = "read"]
    /\ ProjectFrame

\* mutant: the id is cleared before the delete call is issued
resourceNcloudSourcePipelineDelete_ClearsFirst ==
    /\ project.op = "delete" /\ project.pc = "start"
    /\ \/ project' = [project EXCEPT !.pc = "done", !.result = "error",
                                     !.calls = Append(@, "delete"),
                                     !.d = [@ EXCEPT !.id = ""]]
       \/ project' = [project EXCEPT !.pc = "done", !.result = "ok",
                                     !.remote = "absent",
                                     !.calls = Append(@, "delete"),
                                     !.d = [@ EXCEPT !.id = ""]]
    /\ ProjectFrame

\* resourceNcloudSourcePipelineDelete: the error of the delete call is
\* returned; else the id is cleared
resourceNcloudSourcePipelineDelete ==
    /\ project.op = "delete" /\ project.pc = "start"
    /\ \/ project' = [project EXCEPT !.pc = "done", !.result = "error",
                                     !.calls = Append(@, "delete")]
       \/ project' = [project EXCEPT !.pc = "done", !.result = "ok",
                                     !.remote = "absent",
                                     !.calls = Append(@, "delete"),
                                     !.d = [@ EXCEPT !.id = ""]]
    /\ ProjectFrame

\* Read of the pipeline project, on its own or at the end of create and
\* update
resourceNcloudSourcePipelineRead_Run ==
    /\ \/ project.op = "read" /\ project.pc = "start"
       \/ project.pc = "read"
    /\ \E resp \in GetProjectResponses(project.remote) :
          LET r == resourceNcloudSourcePipelineRead(project.d, resp)
          IN project' = [project EXCEPT
                           !.pc = "done",
                           !.lookup = LookupLabel(resp),
                           !.d = r.d,
                           !.result = IF r.err THEN "error" ELSE "ok"]
    /\ ProjectFrame

\* the remote project changes on its own before Read looks it up
ProjectStep ==
    /\ project.pc = "read"
    /\ \E r \in ProjectStates \ {project.remote} :
          project' = [project EXCEPT !.remote = r]
    /\ ProjectFrame

NextResources ==
    \/ resourceNcloudSESClusterRead_Run
    \/ resourceNcloudCDSSClusterRead_Run
    \/ resourceNcloudSourcePipelineCreate
    \/ resourceNcloudSourcePipelineUpdate
    \/ resourceNcloudSourcePipelineDelete
    \/ resourceNcloudSourcePipelineRead_Run
    \/ ProjectStep

SpecResources == InitResources /\ [][NextResources]_vars

(* ---- specification ---- *)
Next ==
    \/ resourceNcloudSESClusterCreate_Call
    \/ resourceNcloudSESClusterCreate_AfterPoll
    \/ resourceNcloudSESClusterCreate_Read
    \/ resourceNcloudCDSSClusterCreate_Call
    \/ resourceNcloudCDSSClusterCreate_AfterPoll
    \/ resourceNcloudCDSSClusterCreate_Read
    \/ resourceNcloudSESClusterDelete_Start
    \/ resourceNcloudSESClusterDelete_Call
    \/ resourceNcloudSESClusterDelete_AfterPoll
    \/ resourceNcloudCDSSClusterDelete_Start
    \/ resourceNcloudCDSSClusterDelete_Call
    \/ resourceNcloudCDSSClusterDelete_AfterPoll
    \/ checkSearchEngineChanged_Start
    \/ checkSearchEngineChanged_Call
    \/ checkSearchEngineChanged_AfterPoll
    \/ checkDataNodeChanged_Start
    \/ checkDataNodeChanged_Call
    \/ checkDataNodeChanged_AfterPoll
    \/ checkNodeProductCodeChanged_Call
    \/ checkNodeProductCodeChanged_AfterPoll
    \/ checkConfigGroupNoChanged_Start
    \/ checkConfigGroupNoChanged_Call
    \/ checkConfigGroupNoChanged_AfterPoll
    \/ checkCmakPasswordChanged_Start
    \/ checkCmakPasswordChanged_Call
    \/ checkCmakPasswordChanged_AfterPoll
    \/ checkNodeCountChanged_Start
    \/ checkNodeCountChanged_Call
    \/ checkNodeCountChanged_AfterPoll
    \/ checkCDSSNodeProductCodeChanged_Start
    \/ checkCDSSNodeProductCodeChanged_Call
    \/ checkCDSSNodeProductCodeChanged_AfterPoll
    \/ PollDelay
    \/ PollRefresh_Call
    \/ PollRefresh
    \/ PollWait
    \/ RemoteStep

Spec == Init /\ [][Next]_vars

\* WaitForStateContext runs its loop in a goroutine of its own and every
\* lookup answers or fails: no step of a started session waits forever
SpecFair ==
    /\ Spec
    /\ WF_vars(PollDelay)
    /\ WF_vars(PollRefresh_Call)
    /\ WF_vars(PollRefresh)
    /\ WF_vars(PollWait)

\* the operations under a context that can be canceled
NextCancel ==
    \/ Next
    \/ CtxCancel
    \/ PollCanceled

SpecCancel == Init /\ [][NextCancel]_vars

(* ======================================================================= *)
(* Properties                                                              *)
(* ======================================================================= *)
Last(q) == q[Len(q)]
Returned == pollPc = "returned"
FetchErrors == {"<api error>", "<notfound error>"}
\* the first n fetches of the session all reported a state of P
FirstIn(n, P) == \A i \in 1..n : fetched[i] \in P

\* C1: a fetch that reports a target state ends the session with success
\* at once: in an active poll (SES and CDSS) a fetch reporting running, and
\* in a deletion poll a fetch reporting return, is the last fetch of the
\* session, and the session has returned success.
C1_TargetEndsSession ==
    \A i \in 1..Len(fetched) :
        (\/ pollKind = "active" /\ fetched[i] = "running"
         \/ pollKind = "deletion" /\ fetched[i] = "return")
        => (i = Len(fetched) /\ Returned /\ outcome = "success")

C1_Witness ==
    /\ pollKind = "active" /\ pc = "create_read"
    /\ Len(fetched) = 2 /\ fetched[1] = "changing" /\ fetched[2] = "running"
    /\ outcome = "success"

\* C2: in the SES active poll, a session whose fetches were N pending
\* states (creating, changing) followed by running has returned success
\* with those N+1 fetches, and a session returns success only after such a
\* sequence.
C2_SuccessAfterNPlusOne ==
    (svc = "ses" /\ pollKind = "active") =>
        /\ (/\ Len(fetched) >= 1
            /\ FirstIn(Len(fetched) - 1, {"creating", "changing"})
            /\ Last(fetched) = "running")
           => (Returned /\ outcome = "success"
               /\ Len(fetchAt) = Len(fetched))
        /\ outcome = "success"
           => (/\ Len(fetched) >= 1
               /\ FirstIn(Len(fetched) - 1, {"creating", "changing"})
               /\ Last(fetched) = "running")

C2_Witness ==
    /\ svc = "ses" /\ pollKind = "active" /\ outcome = "success"
    /\ Len(fetched) = 4

\* C3: a session (here the CDSS active poll) that has returned after
\* seeing nothing but pending states has returned Timeout, at the deadline;
\* no fetch of a session is issued after its deadline, and none after the
\* Timeout.
C3_TimeoutWhenOnlyPending ==
    (svc = "cdss" /\ pollKind = "active") =>
        /\ (Returned /\ FirstIn(Len(fetched), {"creating", "changing"}))
           => (outcome = "Timeout" /\ elapsed = pollTimeout)
        /\ outcome = "Timeout"
           => (Returned /\ FirstIn(Len(fetched), {"creating", "changing"}))
        /\ \A i \in 1..Len(fetchAt) : fetchAt[i] <= pollTimeout

C3_Witness ==
    /\ svc = "cdss" /\ pollKind = "active" /\ outcome = "Timeout"
    /\ Len(fetched) > 1 /\ opResult = "error"

\* C4: in an active poll a fetch that reports error, deleting, return,
\* working or null (neither pending nor target) is the last fetch of the
\* session, and the session has returned UnexpectedState.
C4_UnexpectedStateEndsSession ==
    pollKind = "active" =>
        \A i \in 1..Len(fetched) :
            fetched[i] \in {"error", "deleting", "return", "working", "null"}
            => (i = Len(fetched) /\ Returned /\ outcome = "UnexpectedState")

C4_Witness ==
    /\ pollKind = "active" /\ outcome = "UnexpectedState"
    /\ Len(fetched) = 2 /\ Last(fetched) = "null"

\* C5: a fetch whose lookup call failed is the last fetch of the session,
\* and the session has returned FetchFailed.
C5_FetchErrorEndsSession ==
    \A i \in 1..Len(lookups) :
        lookups[i] \in FetchErrors
        => (i = Len(lookups) /\ Returned /\ outcome = "FetchFailed")

C5_Witness ==
    /\ svc = "ses" /\ pollKind = "active" /\ outcome = "FetchFailed"
    /\ Len(lookups) = 2 /\ Last(lookups) = "<api error>"

\* C6: a deletion poll whose lookups answered deleting, deleting and then
\* no cluster (not found) has returned success with these 3 fetches.
C6_DeletionConfirmedByNotFound ==
    (pollKind = "deletion"
     /\ lookups = <<"deleting", "deleting", "<no cluster>">>)
    => (Returned /\ outcome = "success" /\ Len(fetched) = 3)

\* C7: an active poll whose fetches reported creating, creating, running
\* has returned success with these 3 fetches; one whose fetches reported
\* creating, error has returned UnexpectedState with these 2 fetches.
C7_CreationScenario ==
    pollKind = "active" =>
        /\ fetched = <<"creating", "creating", "running">>
           => (Returned /\ outcome = "success")
        /\ fetched = <<"creating", "error">>
           => (Returned /\ outcome = "UnexpectedState")

C7_Witness ==
    /\ svc = "cdss" /\ op = "create" /\ pollKind = "active"
    /\ fetched = <<"creating", "creating", "running">>
    /\ d.id = ClusterId

\* C8: in a deletion poll a lookup that fails with a not-found style error
\* is reported as the null sentinel, never as a fetch error, and the
\* session does not end with FetchFailed because of it.
C8_NotFoundErrorNormalized ==
    pollKind = "deletion" =>
        \A i \in 1..Len(lookups) :
            lookups[i] = "<notfound error>"
            => (fetched[i] = "null" /\ outcome # "FetchFailed")

\* C9: in create the local id is set only after the active poll has
\* returned success; when the create call or the poll fails, create
\* returns an error and the local id is unset.
C9_NoIdOnFailure ==
    op = "create" =>
        /\ d.id # ""
           => (pollKind = "active" /\ Returned /\ outcome = "success")
        /\ failedAt \in {"call", "poll"}
           => (opResult = "error" /\ d.id = "")
        /\ (pc = "done" /\ calls = <<"create">>
            /\ outcome \in {"none", "Timeout", "UnexpectedState", "FetchFailed"})
           => (opResult = "error" /\ d.id = "")

C9_Witness ==
    /\ op = "create" /\ opResult = "error" /\ failedAt = "poll"
    /\ outcome = "FetchFailed" /\ d.id = ""

\* C10: a step of a poll session (the delay, a fetch, an interval wait, the
\* return) changes neither the local resource data nor the remote cluster,
\* and issues no mutating API call.
C10_PollHasNoSideEffects ==
    [][(pollPc \in {"delay", "refresh", "fetching", "wait"}
        /\ pollVars' # pollVars)
       => (d' = d /\ remote' = remote /\ calls' = calls)]_vars

C10_Witness ==
    /\ pollKind = "deletion" /\ Returned /\ Len(fetched) = 3
    /\ d = [id |-> ClusterId, attrs |-> "set"]

\* C11: within a poll session at most one status query is in flight; a
\* query is in flight exactly while the loop is blocked in Refresh, so a
\* query is issued only when every earlier one has returned, and the
\* interval wait runs only when none is in flight.
C11_OneQueryInFlight ==
    /\ inFlight <= 1
    /\ inFlight = 1 <=> pollPc = "fetching"
    /\ Len(fetchAt) = Len(fetched) + inFlight
    /\ pollPc = "wait" => (inFlight = 0 /\ Len(fetchAt) = Len(fetched))

C11_Witness ==
    /\ pollPc = "fetching" /\ inFlight = 1
    /\ Len(fetchAt) = 3 /\ Len(fetched) = 2

\* C12: two poll sessions for different cluster ids, interleaved, share no
\* state: a step of one session leaves the other session and the other
\* cluster untouched, every lookup a session records is an answer for the
\* cluster of its own id, and the outcome and the number of fetches of a
\* returned session follow from its own configuration and its own fetch
\* results alone (two returned sessions with equal configuration and equal
\* fetch results have equal outcomes)
C12_SessionsIsolated ==
    /\ [][\A i \in ClusterIds :
             sessions'[i] # sessions[i] =>
                /\ sessions'[Other(i)] = sessions[Other(i)]
                /\ clusters' = clusters
                /\ Len(sessions'[i].lookups) > Len(sessions[i].lookups) =>
                      Last(sessions'[i].lookups) \in
                         {LookupLabel(r) : r \in LookupResponses(clusters[i])}]_vars
    /\ [](\A i \in ClusterIds :
             LET s == sessions[i]
                 o == sessions[Other(i)]
             IN /\ Len(s.fetched) = Len(s.lookups)
                /\ (/\ s.pollPc = "returned" /\ o.pollPc = "returned"
                    /\ s.svc = o.svc /\ s.kind = o.kind
                    /\ s.timeout = o.timeout /\ s.lookups = o.lookups)
                   => s.outcome = o.outcome)

\* both sessions returned, with different outcomes and fetch counts, while
\* the two clusters were in different states
C12_Witness ==
    /\ sessions[ClusterId].pollPc = "returned"
    /\ sessions[OtherClusterId].pollPc = "returned"
    /\ sessions[ClusterId].outcome = "success"
    /\ sessions[OtherClusterId].outcome = "UnexpectedState"
    /\ Len(sessions[ClusterId].fetched) = 3
    /\ Len(sessions[OtherClusterId].fetched) = 1
    /\ clusters[ClusterId] # clusters[OtherClusterId]

\* the mutating API calls an operation of service s can issue, in the order
\* of its steps
OperationCalls(s, o) ==
    IF o = "create" THEN <<"create">>
    ELSE IF o = "delete" THEN <<"delete">>
    ELSE IF s = "ses" THEN <<"resetPassword", "addNodes", "changeSpec">>
    ELSE <<"setConfigGroup", "resetPassword", "addNodes", "changeSpec">>

CallRank(s, o, c) ==
    IF \E k \in DOMAIN OperationCalls(s, o) : OperationCalls(s, o)[k] = c
    THEN CHOOSE k \in DOMAIN OperationCalls(s, o) : OperationCalls(s, o)[k] = c
    ELSE 0

\* C13: nothing is retried or rolled back: the calls issued within one
\* operation are calls of its own steps only, each issued at most once and
\* in the order of the steps, and a step that fails (its call or a poll of
\* it) issues at most its own call: no call is repeated and no compensating
\* call (a delete after a failed create, a second call after a failed poll)
\* is made; after the operation returned no call is issued
C13_NoRetryNoRollback ==
    /\ [](/\ \A i \in DOMAIN calls : CallRank(svc, op, calls[i]) > 0
          /\ \A i, j \in DOMAIN calls :
                i < j => CallRank(svc, op, calls[i]) < CallRank(svc, op, calls[j]))
    /\ [][/\ (stepErrs' # stepErrs \/ opResult' = "error") =>
                (calls' = calls \/ (Len(calls') = Len(calls) + 1
                                    /\ SubSeq(calls', 1, Len(calls)) = calls))
          /\ pc = "done" => calls' = calls]_vars

\* an update in which a poll after an accepted call failed and a later step
\* issued its own call, and a create whose poll failed after its one call
C13_Witness ==
    /\ svc = "cdss" /\ op = "update" /\ pc = "done"
    /\ "cfg" \in stepErrs
    /\ calls = <<"setConfigGroup", "resetPassword", "addNodes">>
    /\ opResult = "error" /\ failedAt = "count"

\* the states the source lists as pending, per service and kind of poll
PendingLabels ==
    IF pollKind = "active" THEN {"creating", "changing"}
    ELSE IF pollKind = "deletion" /\ svc = "ses" THEN {"running", "deleting"}
    ELSE IF pollKind = "deletion" /\ svc = "cdss" THEN {"deleting"}
    ELSE {}

C15_DelayOnceThenMinInterval ==
    /\ pollPc = "delay" => (fetchAt = <<>> /\ elapsed = 0)
    /\ fetchAt # <<>> => fetchAt[1] = 2
    /\ Len(fetchAt) >= 2 => fetchAt[2] = 5
    /\ \A i \in 1..(Len(fetchAt) - 1) : fetchAt[i + 1] - fetchAt[i] >= 3

C15_Witness ==
    /\ Returned /\ Len(fetchAt) = 4
    /\ fetchAt[1] = 2 /\ fetchAt[4] - fetchAt[3] > 3

\* C16: in an active poll (the poll of create and of the update steps) a
\* lookup that finds no cluster is reported as null, ends the session at
\* once and makes it fail with UnexpectedState, never succeed; a create or
\* an SES update whose last poll ended so returns an error
C16_NotFoundFailsActivePoll ==
    pollKind = "active" =>
        /\ \A i \in 1..Len(lookups) :
              lookups[i] = "<no cluster>" =>
                 /\ i = Len(lookups)
                 /\ fetched[i] = "null"
                 /\ Returned
                 /\ outcome = "UnexpectedState"
        /\ (/\ pc = "done"
            /\ op = "create" \/ (op = "update" /\ svc = "ses")
            /\ lookups # <<>> /\ Last(lookups) = "<no cluster>")
           => opResult = "error"

C16_Witness ==
    /\ svc = "cdss" /\ op = "update" /\ pollKind = "active" /\ pc = "cfg_post"
    /\ Len(lookups) = 2 /\ Last(lookups) = "<no cluster>"
    /\ Returned /\ outcome = "UnexpectedState"

\* C17: every failure inside an update is reported: an update that has
\* returned after one of its steps failed (the triggering call of the step
\* or one of its polls; for CDSS the config group and CMAK password steps
\* included) has returned an error
C17_UpdateReportsEveryFailure ==
    (op = "update" /\ pc = "done" /\ opResult # "panic" /\ stepErrs # {})
    => opResult = "error"

\* the timeout the caller configured for the kind of poll in progress
SuppliedTimeout ==
    IF pollKind = "deletion" THEN timeouts.delete ELSE timeouts.create

\* a session ended by what a fetch reported
EndedByFetch ==
    /\ outcome \in {"success", "UnexpectedState", "FetchFailed"}
    /\ fetched # <<>>

\* a session ended by the expiry of the timeout the caller supplied
EndedByTimeout ==
    /\ outcome = "Timeout"
    /\ elapsed = SuppliedTimeout

\* C18 as stated: a session that is not ended by what a fetch reported is
\* ended only by the expiry of the timeout the caller supplied; nothing
\* else cancels it
C18_OnlyTimeoutEndsSession ==
    Returned => (EndedByFetch \/ EndedByTimeout)

\* C18 amended: a session that is not ended by what a fetch reported is
\* ended by the expiry of the timeout the caller supplied or by the
\* cancellation of the context the operation was called with, and by
\* nothing else
C18_TimeoutOrContextEndsSession ==
    Returned =>
        \/ EndedByFetch
        \/ EndedByTimeout
        \/ (outcome = "Canceled" /\ ctx = "canceled")

\* a deletion poll canceled between two fetches, before its deadline
C18_Witness ==
    /\ op = "delete" /\ pollKind = "deletion" /\ Returned
    /\ outcome = "Canceled" /\ ctx = "canceled"
    /\ elapsed < SuppliedTimeout /\ Len(fetched) = 2
    /\ pc = "done" /\ opResult = "error"

\* the field of an API product a filter name refers to
ProductField(p, name) ==
    IF name = "product_code" THEN p.ProductCode
    ELSE IF name = "platform_type" THEN p.PlatformType
    ELSE p.ProductName

\* the products of the response the filter blocks of the configuration let
\* through
MatchedImages ==
    SelectSeq(image.response,
              LAMBDA p : \A k \in DOMAIN image.filter :
                            ProductField(p, image.filter[k].name)
                               \in image.filter[k].values)

CompletionOf ==
    IF pc = "create_wait" THEN "create"
    ELSE IF pc = "delete_wait" THEN "delete"
    ELSE IF pc = "cfg_post" THEN "setConfigGroup"
    ELSE IF pc = "pw_post" THEN "resetPassword"
    ELSE IF pc = "count_post" THEN "addNodes"
    ELSE IF pc = "code_post" THEN "changeSpec"
    ELSE "none"

\* C20: in create, in every update step and in delete the completion poll
\* is started only after the triggering call was issued and returned
\* without error (the handler waits in a completion poll only with that
\* call as the last one issued); a step in which the triggering call
\* returns an error starts no poll and makes the operation return an error
C20_PollOnlyAfterAcceptedCall ==
    /\ [](CompletionOf # "none" =>
            (calls # <<>> /\ Last(calls) = CompletionOf))
    /\ [][(calls' # calls /\ (failedAt' = "call" \/ stepErrs' # stepErrs))
            => (/\ pollVars' = pollVars
                /\ pc' = "done"
                /\ opResult' = "error")]_vars

\* the timeout configured for the kind of operation in progress
OperationTimeout ==
    IF op = "create" THEN timeouts.create
    ELSE IF op = "update" THEN timeouts.update
    ELSE timeouts.delete

\* C21: every poll session is bounded by the timeout configured for the
\* kind of operation that runs it: an active poll of an update by the update
\* timeout, one of a delete by the delete timeout, one of a create by the
\* create timeout
C21_PollBoundedByOperationTimeout ==
    pollKind = "active" =>
        /\ pollTimeout = OperationTimeout
        /\ elapsed <= OperationTimeout

\* C22: delete issues the delete API call only after an active poll of the
\* same operation has returned success on a fetch that reported running;
\* when that poll fails (the cluster in error state, not found, a failed
\* lookup, a timeout) delete returns an error and has issued no call
C22_DeleteCallAfterActivePoll ==
    /\ [][(op = "delete" /\ calls' # calls) =>
             /\ calls = <<>> /\ calls' = <<"delete">>
             /\ pollKind = "active" /\ pollPc = "returned"
             /\ outcome = "success"
             /\ fetched # <<>> /\ Last(fetched) = "running"]_vars
    /\ []((op = "delete" /\ pc = "done" /\ pollKind = "active"
           /\ outcome # "success")
          => (opResult = "error" /\ failedAt = "prepoll" /\ calls = <<>>))
    /\ []((op = "delete" /\ failedAt = "prepoll")
          => (pollKind = "active" /\ outcome # "success" /\ calls = <<>>))

\* a delete whose pre-delete poll found no cluster on its second fetch
C22_Witness ==
    /\ op = "delete" /\ pc = "done" /\ opResult = "error"
    /\ failedAt = "prepoll" /\ calls = <<>>
    /\ lookups = <<"creating", "<no cluster>">>
    /\ outcome = "UnexpectedState"

\* C23: in an update every mutating API call (reset password, add nodes,
\* change node spec, set config group) is issued only when the active poll
\* the same step ran before the call has returned success on a fetch that
\* reported running
C23_UpdateCallAfterActivePoll ==
    [][(op = "update" /\ calls' # calls) =>
          /\ pc \in {"cfg_pre", "pw_pre", "count_pre", "code_pre"}
          /\ pollKind = "active" /\ pollPc = "returned"
          /\ outcome = "success"
          /\ fetched # <<>> /\ Last(fetched) = "running"]_vars

\* C24: the deletion poll of SES and of CDSS treats a fetch that still
\* reports running as pending: such a fetch does not end the session with
\* UnexpectedState, and a session whose fetches reported running, deleting,
\* return has returned success
C24_DeletionPollRunningIsPending ==
    pollKind = "deletion" =>
        /\ \A i \in 1..Len(fetched) :
              fetched[i] = "running" =>
                 ~(i = Len(fetched) /\ outcome = "UnexpectedState")
        /\ fetched = <<"running", "deleting", "return">>
           => (Returned /\ outcome = "success")

\* the place of a call in the step order of the SES update
SESStepOrder(c) ==
    IF c = "resetPassword" THEN 1
    ELSE IF c = "addNodes" THEN 2
    ELSE IF c = "changeSpec" THEN 3
    ELSE 0

\* C25: the SES update runs its steps in the order password reset, data
\* node count, node product code (its calls appear in that order) and stops
\* at the first step that fails: once a step has returned an error update
\* has returned that error, only calls of that step and of earlier steps
\* were issued, and no call or poll follows
C25_SESUpdateStopsAtFirstFailure ==
    /\ []((svc = "ses" /\ op = "update") =>
            /\ \A i \in DOMAIN calls : SESStepOrder(calls[i]) > 0
            /\ \A i, j \in DOMAIN calls :
                  i < j => SESStepOrder(calls[i]) < SESStepOrder(calls[j])
            /\ stepErrs # {} =>
                  /\ pc = "done" /\ opResult = "error"
                  /\ stepErrs = {failedAt}
                  /\ failedAt = "pw" =>
                        \A i \in DOMAIN calls : SESStepOrder(calls[i]) <= 1
                  /\ failedAt = "count" =>
                        \A i \in DOMAIN calls : SESStepOrder(calls[i]) <= 2)
    /\ [][(svc = "ses" /\ op = "update" /\ stepErrs # {})
            => (calls' = calls /\ pollVars' = pollVars)]_vars

\* an SES update whose password step went through and whose add-nodes
\* poll failed: it returned without the product code step
C25_Witness ==
    /\ svc = "ses" /\ op = "update" /\ pc = "done"
    /\ opResult = "error" /\ failedAt = "count"
    /\ calls = <<"resetPassword", "addNodes">>
    /\ outcome = "UnexpectedState"

\* how often the add-nodes call was issued
AddNodesCalls == Cardinality({i \in DOMAIN calls : calls[i] = "addNodes"})

\* C26: the node count step of SES and CDSS: with a new count lower than
\* the old one it returns an error and issues no call and no poll; with a
\* higher one it issues the add-nodes call exactly once, carrying new minus
\* old; with an equal one it issues nothing
C26_NodeCountStep ==
    /\ [][(op = "update" /\ pc = "count" /\ pc' # pc) =>
             /\ diff'.new < diff'.old =>
                   /\ "count" \in stepErrs'
                   /\ pc' = "done" /\ opResult' = "error"
                   /\ calls' = calls /\ pollVars' = pollVars
             /\ diff'.new = diff'.old =>
                   /\ stepErrs' = stepErrs
                   /\ calls' = calls /\ pollVars' = pollVars
             /\ diff'.new > diff'.old =>
                   /\ pc' = "count_pre" /\ calls' = calls]_vars
    /\ [](op = "update" =>
            /\ AddNodesCalls <= 1
            /\ AddNodesCalls = 1 =>
                  /\ diff.new > diff.old
                  /\ diff.added = diff.new - diff.old
            /\ pc = "count_post" => AddNodesCalls = 1
            /\ diff.new <= diff.old => (AddNodesCalls = 0 /\ diff.added = 0))

\* a CDSS update that added the one missing broker node, and whose poll
\* after the call succeeded
C26_Witness ==
    /\ svc = "cdss" /\ op = "update" /\ pc = "code"
    /\ diff.old = 1 /\ diff.new = 2 /\ diff.added = 1
    /\ AddNodesCalls = 1 /\ "count" \notin stepErrs

\* C27: the CDSS product code step, when at least one of the manager and
\* broker product codes changed (also when exactly one did) and its active
\* poll succeeded, issues the change-spec call and never dereferences a nil
\* product code: the step does not panic
C27_NoNilProductCodeDeref ==
    /\ [][(/\ svc = "cdss" /\ op = "update" /\ pc = "code_pre"
           /\ diff.codes # {} /\ outcome = "success" /\ pc' # pc)
          => calls' = Append(calls, "changeSpec")]_vars
    /\ [](opResult # "panic")

\* C28: Read of a resource that is gone remotely (the lookup answers with
\* no cluster or no project; for SES also with a cluster in status return)
\* clears the local id, returns no error and sets no other attribute; Read
\* whose lookup failed returns the error and leaves the local data as it was
C28_ReadOfMissingResource ==
    [][/\ (op = "read" /\ pc = "start" /\ pc' = "done") =>
             LET l == Last(lookups') IN
             /\ (l = "<no cluster>" \/ (svc = "ses" /\ l = "return")) =>
                   /\ opResult' = "ok"
                   /\ d'.id = "" /\ d'.attrs = d.attrs
             /\ l \in FetchErrors => (opResult' = "error" /\ d' = d)
       /\ (project.pc \in {"start", "read"} /\ project'.pc = "done"
           /\ project'.lookup # "none") =>
             /\ project'.lookup = "<no cluster>" =>
                   /\ project'.result = "ok"
                   /\ project'.d.id = ""
                   /\ project'.d.attrs = project.d.attrs
             /\ project'.lookup \in FetchErrors =>
                   (project'.result = "error" /\ project'.d = project.d)]_vars

\* a Read of a pipeline project that is gone: the id is cleared, the
\* attributes are as they were
C28_Witness ==
    /\ project.op = "read" /\ project.pc = "done"
    /\ project.lookup = "<no cluster>" /\ project.result = "ok"
    /\ project.d = [id |-> "", attrs |-> "set"]

\* C29: delete of a pipeline project clears the local id only when the
\* delete call has succeeded; when the call fails delete returns the error
\* and the local id is as it was
C29_PipelineDeleteClearsIdOnSuccess ==
    /\ [][(project.op = "delete" /\ project'.d # project.d) =>
             /\ project'.calls = <<"delete">>
             /\ project'.result = "ok"
             /\ project'.d = [project.d EXCEPT !.id = ""]]_vars
    /\ []((project.op = "delete" /\ project.pc = "done") =>
            /\ project.calls = <<"delete">>
            /\ project.result \in {"ok", "error"}
            /\ project.result = "ok" => project.d.id = ""
            /\ project.result = "error" => project.d.id = ProjectId)

\* a delete of a pipeline project whose delete call failed
C29_Witness ==
    /\ project.op = "delete" /\ project.pc = "done"
    /\ project.result = "error" /\ project.calls = <<"delete">>
    /\ project.d = [id |-> ProjectId, attrs |-> "set"]
    /\ project.remote = "present"

====
